---- MODULE Spec2Model ----
(***************************************************************************)
(* NoFi acoustic modem (src/unnamed/part_000): one device with its tone    *)
(* encoder, the frequency-sample decoder state machine, the frame commit   *)
(* with deduplication, and the store-and-forward relay scheduler.          *)
(*                                                                         *)
(* Characters are their char codes, strings are sequences of char codes,   *)
(* frequencies are integers in Hz and times are integers in milliseconds.  *)
(*                                                                         *)
(* Under Spec the clock is read on a coarse grid: what happens between two *)
(* steps of the clock carries the same reading of now.  A transmission     *)
(* lasts as long as its text is long, so its end (OnEnded) may come at any *)
(* later moment; a pending setTimeout callback runs once the clock has     *)
(* passed its due time and before the clock moves on.  The interval of the *)
(* relay queue processor and the animation frames of the monitor may run   *)
(* at any moment.  React state is read as written (no stale render).       *)
(* Under SpecLoopback the clock moves by the period of the update loop.    *)
(***************************************************************************)
EXTENDS Integers, Sequences, FiniteSets, TLC

VARIABLES
    now,            \* Date.now() / ctx.currentTime, in ms
    d,              \* decoderRef.current
    messages,       \* useState<Message[]>
    relayQueue,     \* useState<RelayMessage[]>
    seenIds,        \* seenIdsRef.current
    isSending,      \* useState isSending
    isSendingRef,   \* isSendingRef.current (the busy flag)
    isReceiving,    \* useState isReceiving
    micPermission,  \* useState micPermission (audio context and analyser exist)
    isStealthMode,  \* isStealthModeRef.current
    inflight,       \* oscillators started by transmitAudio whose onended has not fired
    timers,         \* due times of the pending setTimeout(..., 500) callbacks
    lastCommit,     \* history: what the latest run of update committed, if it did
    committedIds,   \* history: the frame ids commitReceivedMessage has parsed
    relayStarted,   \* history: ids of the entries whose relay has been transmitted
    soloStarted,    \* history: ids relayed by a tick that found them alone and the channel idle
    rt,             \* the tone schedule on the air in the encoder-decoder loopback
    heard           \* history of the decoder on its own (SpecListen, SpecTones): the samples just fed

vars == <<now, d, messages, relayQueue, seenIds, isSending, isSendingRef,
          isReceiving, micPermission, isStealthMode, inflight, timers,
          lastCommit, committedIds, relayStarted, soloStarted, rt, heard>>

-----------------------------------------------------------------------------
(* PROTOCOL and the other literals of the source *)

THRESHOLD == 20
RANGE == 100
TONE_DURATION == 120
GAP_DURATION == 40
SILENCE_TIMEOUT == 1000
IDLE_TIMEOUT == 3000
NO_PROGRESS_TIMEOUT == 3000
SEPARATOR == 124
STEP_FREQ == 60
AUDIBLE_MARKER == 2000
AUDIBLE_BASE == 2200
STEALTH_MARKER == 16000
STEALTH_BASE == 16500
STEALTH_STEP_FREQ == 40
MARKER_FRAMES == 2
CHAR_FRAMES == 3
MIN_CHAR == 32
MAX_CHAR == 126
GUARD_MS == 500
RELAY_MIN_DELAY == 10000
RELAY_DELAY_SPAN == 10000
HEAD_PAD == 100
TAIL_PAD == 500
Null == -1

Modes == {"AUDIBLE", "STEALTH"}

\* a marker put on the tone of the first character of the table
MarkerOnFirstTone(mode) ==
    IF mode = "STEALTH" THEN STEALTH_BASE + MIN_CHAR * STEALTH_STEP_FREQ
    ELSE AUDIBLE_BASE + MIN_CHAR * STEP_FREQ

MarkerOf(mode) == IF mode = "STEALTH" THEN STEALTH_MARKER ELSE AUDIBLE_MARKER
BaseOf(mode) == IF mode = "STEALTH" THEN STEALTH_BASE ELSE AUDIBLE_BASE
StepOf(mode) == IF mode = "STEALTH" THEN STEALTH_STEP_FREQ ELSE STEP_FREQ

Abs(x) == IF x < 0 THEN -x ELSE x

\* Math.floor(num / den) for den > 0, in place of Math.round
Floor(num, den) == num \div den

\* Math.round(num / den) for den > 0: the nearest integer, halves upwards
Round(num, den) == (2 * num + den) \div (2 * den)

-----------------------------------------------------------------------------
(* Strings *)

Space == MIN_CHAR

RECURSIVE TrimLeft(_)
TrimLeft(s) ==
    IF s # <<>> /\ Head(s) = Space THEN TrimLeft(Tail(s)) ELSE s

RECURSIVE TrimRight(_)
TrimRight(s) ==
    IF s # <<>> /\ s[Len(s)] = Space THEN TrimRight(SubSeq(s, 1, Len(s) - 1)) ELSE s

\* String.prototype.trim, on the characters the decoder can put in the buffer
Trim(s) == TrimRight(TrimLeft(s))

Includes(s, c) == \E i \in 1..Len(s) : s[i] = c

\* index of the first occurrence of c in s (s includes c)
IndexOf(s, c) == CHOOSE i \in 1..Len(s) : s[i] = c /\ \A j \in 1..(i - 1) : s[j] # c

\* rawData.split(SEPARATOR): parts[0] and parts.slice(1).join(SEPARATOR)
ParseFrame(rawData, genId) ==
    IF Includes(rawData, SEPARATOR)
    THEN [id   |-> SubSeq(rawData, 1, IndexOf(rawData, SEPARATOR) - 1),
          text |-> SubSeq(rawData, IndexOf(rawData, SEPARATOR) + 1, Len(rawData))]
    ELSE [id |-> genId, text |-> rawData]

\* `${id}${PROTOCOL.SEPARATOR}${text}`
Payload(id, text) == id \o <<SEPARATOR>> \o text

-----------------------------------------------------------------------------
(* Bounds of the model *)

MaxNow == 20000
MaxMessages == 3
MaxInflight == 2

\* one clock step: every event is stamped with a multiple of it
ClockSteps == {5000}

\* the frames other devices put on the air: "I|I" and "I|R"
AirFrames == {<<73, SEPARATOR, 73>>, <<73, SEPARATOR, 82>>}

\* values generateId() can return: a base-36 fraction of Math.random() cut to at
\* most 4 characters and upper-cased ("I" is 0.5, "R" is 0.75)
GenIds == {<<73>>, <<82>>}

\* texts the user types: "I" and " "
Texts == {<<73>>, <<Space>>}

\* values of 10000 + Math.random() * 10000, which lie between RELAY_MIN_DELAY
\* and RELAY_MIN_DELAY + RELAY_DELAY_SPAN: the shortest
RelayDelays == {d0 \in {RELAY_MIN_DELAY} : d0 < RELAY_MIN_DELAY + RELAY_DELAY_SPAN}

-----------------------------------------------------------------------------
(* Tone table *)

\* transmitAudio: mode.BASE + (charCode * currentStep)
FrequencyFor(mode, charCode) == BaseOf(mode) + charCode * StepOf(mode)

\* handleFrequencyInput: Math.round((freq - currentConfig.BASE) / currentStep)
EstimatedChar(mode, freq) == Round(freq - BaseOf(mode), StepOf(mode))

\* the tight acceptance: Math.abs(freq - expectedFreq) < currentStep / 2
\* an acceptance test as wide as the marker test: within RANGE of the centre
LooseMatch(mode, freq, c) == Abs(freq - FrequencyFor(mode, c)) < RANGE

TightMatch(mode, freq, c) == 2 * Abs(freq - FrequencyFor(mode, c)) < StepOf(mode)

\* isFreq(target): Math.abs(freq - target) < 100
isFreq(freq, target) == Abs(freq - target) < RANGE

\* the mode whose marker the sample matches, AUDIBLE tested first
DetectedMode(freq) ==
    IF isFreq(freq, AUDIBLE_MARKER) THEN "AUDIBLE"
    ELSE IF isFreq(freq, STEALTH_MARKER) THEN "STEALTH"
    ELSE "NONE"

-----------------------------------------------------------------------------
(* Decoder state machine: the pure steps of handleFrequencyInput *)

InitDecoder ==
    [state |-> "IDLE", buffer |-> <<>>, lastDetectedChar |-> Null,
     silenceTimer |-> Null, lastValidRead |-> 0, lastCharDecoded |-> 0,
     consecutiveFrames |-> 0, activeMode |-> "AUDIBLE"]

\* a decoder without the no-progress test of line 427
NoStuckTimeout(dd, t) == FALSE

StuckTimeout(dd, t) ==
    Len(dd.buffer) > 0 /\ t - dd.lastCharDecoded > NO_PROGRESS_TIMEOUT

SilenceTimeout(dd, t) ==
    /\ Len(dd.buffer) > 0
    /\ dd.silenceTimer # Null
    /\ t - dd.silenceTimer > SILENCE_TIMEOUT

IdleTimeout(dd, t) ==
    /\ dd.state # "IDLE"
    /\ Len(dd.buffer) = 0
    /\ t - dd.lastValidRead > IDLE_TIMEOUT

\* a reset that forgets line 568 and leaves the silence timer running
CommitResetKeepTimer(dd, t) ==
    [dd EXCEPT !.buffer = <<>>, !.lastDetectedChar = Null, !.state = "IDLE",
               !.lastCharDecoded = t]

\* the reset at the end of commitReceivedMessage
CommitReset(dd, t) ==
    [dd EXCEPT !.buffer = <<>>, !.lastDetectedChar = Null, !.state = "IDLE",
               !.silenceTimer = Null, !.lastCharDecoded = t]

\* an idle timeout that forgets line 437 and leaves the state as it was
IdleResetKeepState(dd) ==
    [dd EXCEPT !.buffer = <<>>, !.lastDetectedChar = Null,
               !.consecutiveFrames = 0]

\* the reset of the idle timeout
IdleReset(dd) ==
    [dd EXCEPT !.state = "IDLE", !.buffer = <<>>, !.lastDetectedChar = Null,
               !.consecutiveFrames = 0]

\* a noise gate that restarts the silence timer at every quiet sample
NoiseGateRestart(dd, t) ==
    [dd EXCEPT !.consecutiveFrames = 0,
               !.silenceTimer = IF Len(dd.buffer) > 0 THEN t ELSE @]

\* 2. Noise Gate
NoiseGate(dd, t) ==
    [dd EXCEPT !.consecutiveFrames = 0,
               !.silenceTimer = IF Len(dd.buffer) > 0 /\ dd.silenceTimer = Null
                                THEN t ELSE @]

\* if (d.buffer.length > 0) d.silenceTimer = null
ClearSilence(dd) ==
    [dd EXCEPT !.silenceTimer = IF Len(dd.buffer) > 0 THEN Null ELSE @]

\* a marker scan without the silence-timer refresh of line 473
ScanForMarkerNoRefresh(dd, freq, t) ==
    IF DetectedMode(freq) # "NONE"
    THEN IF dd.consecutiveFrames + 1 >= MARKER_FRAMES
         THEN [dd EXCEPT !.activeMode = DetectedMode(freq),
                         !.state = "READ_CHAR",
                         !.consecutiveFrames = 0,
                         !.lastDetectedChar = Null,
                         !.lastValidRead = t]
         ELSE [dd EXCEPT !.activeMode = DetectedMode(freq),
                         !.consecutiveFrames = @ + 1]
    ELSE [dd EXCEPT !.consecutiveFrames = 0]

\* STATE 1: scan for a marker of either mode
ScanForMarker(dd, freq, t) ==
    IF DetectedMode(freq) # "NONE"
    THEN IF dd.consecutiveFrames + 1 >= MARKER_FRAMES
         THEN [dd EXCEPT !.activeMode = DetectedMode(freq),
                         !.state = "READ_CHAR",
                         !.consecutiveFrames = 0,
                         !.lastDetectedChar = Null,
                         !.lastValidRead = t,
                         !.silenceTimer = IF Len(dd.buffer) > 0 THEN t ELSE @]
         ELSE [dd EXCEPT !.activeMode = DetectedMode(freq),
                         !.consecutiveFrames = @ + 1]
    ELSE [dd EXCEPT !.consecutiveFrames = 0]

\* a READ_CHAR branch that appends without lines 500 and 502: the last
\* character is not recorded and the state stays READ_CHAR
ReadCharRepeating(dd, freq, t) ==
    LET c == EstimatedChar(dd.activeMode, freq) IN
    IF isFreq(freq, MarkerOf(dd.activeMode))
    THEN [dd EXCEPT !.consecutiveFrames = 0]
    ELSE IF c >= MIN_CHAR /\ c <= MAX_CHAR /\ TightMatch(dd.activeMode, freq, c)
    THEN IF dd.consecutiveFrames + 1 >= CHAR_FRAMES
         THEN [dd EXCEPT !.buffer = Append(@, c),
                         !.lastCharDecoded = t,
                         !.consecutiveFrames = 0,
                         !.lastValidRead = t,
                         !.silenceTimer = t]
         ELSE [dd EXCEPT !.consecutiveFrames = @ + 1]
    ELSE [dd EXCEPT !.consecutiveFrames = 0]

\* STATE 2: read a character of the active mode
ReadChar(dd, freq, t) ==
    LET c == EstimatedChar(dd.activeMode, freq) IN
    IF isFreq(freq, MarkerOf(dd.activeMode))
    THEN [dd EXCEPT !.consecutiveFrames = 0]
    ELSE IF c >= MIN_CHAR /\ c <= MAX_CHAR /\ TightMatch(dd.activeMode, freq, c)
    THEN IF dd.consecutiveFrames + 1 >= CHAR_FRAMES
         THEN IF c # dd.lastDetectedChar
              THEN [dd EXCEPT !.buffer = Append(@, c),
                              !.lastDetectedChar = c,
                              !.lastCharDecoded = t,
                              !.state = "WAIT_MARKER",
                              !.consecutiveFrames = 0,
                              !.lastValidRead = t,
                              !.silenceTimer = t]
              ELSE [dd EXCEPT !.consecutiveFrames = @ + 1]
         ELSE [dd EXCEPT !.consecutiveFrames = @ + 1]
    ELSE [dd EXCEPT !.consecutiveFrames = 0]

\* the part of handleFrequencyInput after the noise gate
MatchFrequency(dd, freq, t) ==
    IF dd.state = "READ_CHAR"
    THEN ReadChar(ClearSilence(dd), freq, t)
    ELSE ScanForMarker(ClearSilence(dd), freq, t)

-----------------------------------------------------------------------------
(* commitReceivedMessage, with genId the value generateId() returns and delay
   the value of 10000 + Math.random() * 10000; via names the timeout that
   calls it.  A Message's timestamp is display data and is left out. *)

NoCommit ==
    [via |-> "none", id |-> <<>>, text |-> <<>>, framed |-> FALSE, outcome |-> "none"]

\* commitReceivedMessage without the seenIdsRef test of line 535
CommitOutcomeNoDedup(rawData, id) ==
    IF Len(rawData) = 0 THEN "empty" ELSE "emitted"

\* commitReceivedMessage without the rawData.length test of line 522
CommitOutcomeKeepBlank(rawData, id) ==
    IF id \in seenIds THEN "duplicate" ELSE "emitted"

CommitOutcome(rawData, id) ==
    IF Len(rawData) = 0 THEN "empty"
    ELSE IF id \in seenIds THEN "duplicate"
    ELSE "emitted"

commitReceivedMessage(via, genId, delay) ==
    LET rawData == Trim(d.buffer)
        frame == ParseFrame(rawData, genId)
        outcome == CommitOutcome(rawData, frame.id)
    IN  /\ IF outcome = "emitted"
           THEN /\ seenIds' = seenIds \cup {frame.id}
                /\ messages' = Append(messages,
                       [id |-> frame.id, text |-> frame.text, sender |-> "other"])
                /\ relayQueue' = Append(relayQueue,
                       [id |-> frame.id, text |-> frame.text, receivedAt |-> now,
                        status |-> "pending", relayAfter |-> delay])
           ELSE UNCHANGED <<seenIds, messages, relayQueue>>
        /\ d' = CommitReset(d, now)
        /\ isReceiving' = FALSE
        /\ lastCommit' = [via |-> via, id |-> frame.id, text |-> frame.text,
                          framed |-> Includes(rawData, SEPARATOR),
                          outcome |-> outcome]
        /\ committedIds' = IF Includes(rawData, SEPARATOR)
                           THEN committedIds \cup {frame.id} ELSE committedIds

(* handleFrequencyInput(freq, amplitude) *)
handleFrequencyInput(freq, amplitude) ==
    IF StuckTimeout(d, now)
    THEN \E genId \in GenIds, delay \in RelayDelays :
            commitReceivedMessage("stuck", genId, delay)
    ELSE IF SilenceTimeout(d, now)
    THEN \E genId \in GenIds, delay \in RelayDelays :
            commitReceivedMessage("silence", genId, delay)
    ELSE IF IdleTimeout(d, now)
    THEN /\ d' = IdleReset(d)
         /\ isReceiving' = FALSE
         /\ lastCommit' = NoCommit
         /\ UNCHANGED <<seenIds, messages, relayQueue, committedIds>>
    ELSE IF amplitude < THRESHOLD
    THEN /\ d' = NoiseGate(d, now)
         /\ lastCommit' = NoCommit
         /\ UNCHANGED <<isReceiving, seenIds, messages, relayQueue, committedIds>>
    ELSE /\ d' = MatchFrequency(d, freq, now)
         /\ isReceiving' = IF d.state # "READ_CHAR" /\ d'.state = "READ_CHAR"
                           THEN TRUE ELSE isReceiving
         /\ lastCommit' = NoCommit
         /\ UNCHANGED <<seenIds, messages, relayQueue, committedIds>>

(* One run of update, the requestAnimationFrame callback of
   startAudioMonitoring: maxVal is the largest bin of the spectrum and
   dominantFreq the frequency of that bin. *)
updateStep(dominantFreq, maxVal) ==
    /\ micPermission
    /\ IF ~isSendingRef
       THEN IF maxVal > THRESHOLD
            THEN handleFrequencyInput(dominantFreq, maxVal)
            ELSE handleFrequencyInput(0, 0)
       ELSE /\ d' = [d EXCEPT !.consecutiveFrames = 0]
            /\ lastCommit' = NoCommit
            /\ UNCHANGED <<isReceiving, seenIds, messages, relayQueue, committedIds>>
    /\ UNCHANGED <<isSending, isSendingRef, micPermission, isStealthMode,
                   inflight, timers, relayStarted, soloStarted>>

update(dominantFreq, maxVal) ==
    updateStep(dominantFreq, maxVal) /\ UNCHANGED <<now, rt, heard>>

-----------------------------------------------------------------------------
(* Transmitter *)

CurrentMode == IF isStealthMode THEN "STEALTH" ELSE "AUDIBLE"

\* the tone events transmitAudio schedules for text, startTime being now + 0.1:
\* per character a marker tone and a data tone, each TONE_DURATION long and
\* followed by a gap of GAP_DURATION
\* a schedule whose start time advances by the tone only, the gap forgotten
RECURSIVE ToneScheduleNoGap(_, _, _)
ToneScheduleNoGap(text, mode, startTime) ==
    IF text = <<>> THEN <<>>
    ELSE << [freq |-> MarkerOf(mode), start |-> startTime,
             duration |-> TONE_DURATION],
            [freq |-> FrequencyFor(mode, Head(text)),
             start |-> startTime + TONE_DURATION,
             duration |-> TONE_DURATION] >>
         \o ToneScheduleNoGap(Tail(text), mode, startTime + 2 * TONE_DURATION)

RECURSIVE ToneSchedule(_, _, _)
ToneSchedule(text, mode, startTime) ==
    IF text = <<>> THEN <<>>
    ELSE << [freq |-> MarkerOf(mode), start |-> startTime,
             duration |-> TONE_DURATION],
            [freq |-> FrequencyFor(mode, Head(text)),
             start |-> startTime + TONE_DURATION + GAP_DURATION,
             duration |-> TONE_DURATION] >>
         \o ToneSchedule(Tail(text), mode,
                         startTime + 2 * (TONE_DURATION + GAP_DURATION))

\* osc.stop(startTime + 0.5): when the oscillator ends
StopTime(text, t) ==
    t + HEAD_PAD + Len(text) * 2 * (TONE_DURATION + GAP_DURATION) + TAIL_PAD

\* transmitAudio(text, onComplete): the oscillator it starts; kind and id say
\* which onComplete it carries
transmitAudio(kind, id, text) ==
    IF micPermission
    THEN /\ inflight' = Append(inflight,
                [kind |-> kind, id |-> id, text |-> text, mode |-> CurrentMode])
         /\ relayStarted' = IF kind = "send" THEN relayStarted
                            ELSE relayStarted \cup {id}
    ELSE UNCHANGED <<inflight, relayStarted>>

\* sendMessage without the seenIdsRef.add of line 579
sendMessageUnseen(textToSend) ==
    IF Len(Trim(textToSend)) = 0 \/ ~micPermission \/ isSending
    THEN UNCHANGED vars
    ELSE \E newId \in GenIds :
            /\ messages' = Append(messages,
                   [id |-> newId, text |-> textToSend, sender |-> "me"])
            /\ isSending' = TRUE
            /\ isSendingRef' = TRUE
            /\ transmitAudio("send", newId, Payload(newId, textToSend))
            /\ UNCHANGED <<now, d, relayQueue, seenIds, isReceiving, micPermission,
                           isStealthMode, timers, lastCommit, committedIds,
                           soloStarted, rt, heard>>

(* sendMessage(textOverride) *)
sendMessage(textToSend) ==
    IF Len(Trim(textToSend)) = 0 \/ ~micPermission \/ isSending
    THEN UNCHANGED vars
    ELSE \E newId \in GenIds :
            /\ seenIds' = seenIds \cup {newId}
            /\ messages' = Append(messages,
                   [id |-> newId, text |-> textToSend, sender |-> "me"])
            /\ isSending' = TRUE
            /\ isSendingRef' = TRUE
            /\ transmitAudio("send", newId, Payload(newId, textToSend))
            /\ UNCHANGED <<now, d, relayQueue, isReceiving, micPermission,
                           isStealthMode, timers, lastCommit, committedIds, soloStarted, rt, heard>>

\* relayQueue.find(m => m.id === msgId), 0 when there is none
FindEntry(queue, msgId) ==
    IF \E i \in 1..Len(queue) : queue[i].id = msgId
    THEN CHOOSE i \in 1..Len(queue) :
            queue[i].id = msgId /\ \A j \in 1..(i - 1) : queue[j].id # msgId
    ELSE 0

\* a map that also draws the wait anew
MarkRelayedRedrawn(queue, msgId) ==
    [i \in 1..Len(queue) |->
        IF queue[i].id = msgId
        THEN [queue[i] EXCEPT !.status = "relayed", !.relayAfter = RELAY_MIN_DELAY + 1]
        ELSE queue[i]]

\* a map that drops the relayed entry from the queue
MarkRelayedRemoving(queue, msgId) ==
    SelectSeq(queue, LAMBDA m : m.id # msgId)

\* queue.map(m => m.id === msgId ? {...m, status: 'relayed'} : m)
MarkRelayed(queue, msgId) ==
    [i \in 1..Len(queue) |->
        IF queue[i].id = msgId THEN [queue[i] EXCEPT !.status = "relayed"]
        ELSE queue[i]]

(* relayMessage(msgId), the Relay button of the queue panel *)
relayMessage(msgId) ==
    LET i == FindEntry(relayQueue, msgId) IN
    IF i = 0 \/ relayQueue[i].status = "relayed"
    THEN UNCHANGED vars
    ELSE /\ isSending' = TRUE
         /\ isSendingRef' = TRUE
         /\ transmitAudio("manual", msgId, Payload(relayQueue[i].id, relayQueue[i].text))
         /\ UNCHANGED <<now, d, messages, relayQueue, seenIds, isReceiving,
                        micPermission, isStealthMode, timers, lastCommit,
                        committedIds, soloStarted, rt, heard>>

\* a filter that does not wait: every pending entry passes
ToRelayNoWait(queue, t) ==
    SelectSeq(queue, LAMBDA msg : msg.status = "pending")

\* a filter whose result is in the opposite order, the latest entry first
ToRelayNewestFirst(queue, t) ==
    LET ready == SelectSeq(queue, LAMBDA msg :
                    msg.status = "pending" /\ t - msg.receivedAt >= msg.relayAfter)
    IN  [i \in 1..Len(ready) |-> ready[Len(ready) + 1 - i]]

\* a filter that lets an entry expire: it passes only at the moment its wait
\* elapses
ToRelayExpiring(queue, t) ==
    SelectSeq(queue, LAMBDA msg :
        msg.status = "pending" /\ t - msg.receivedAt = msg.relayAfter)

\* prev.filter(msg => msg.status === 'pending' && now - receivedAt >= relayAfter)
ToRelay(queue, t) ==
    SelectSeq(queue, LAMBDA msg :
        msg.status = "pending" /\ t - msg.receivedAt >= msg.relayAfter)

\* the scheduler scenario: the entry with this id is the only pending one, its
\* relayAfter has elapsed and the channel is idle
SoloIdle(id) ==
    /\ \A i \in 1..Len(relayQueue) :
          relayQueue[i].status = "pending" => relayQueue[i].id = id
    /\ inflight = <<>>
    /\ ~isSendingRef
    /\ ~isReceiving
    /\ d.state = "IDLE"

(* One tick of the relay queue processor (setInterval, 1000 ms) *)
RelayTick ==
    IF isSendingRef \/ isReceiving \/ ToRelay(relayQueue, now) = <<>>
    THEN UNCHANGED vars
    ELSE LET msg == ToRelay(relayQueue, now)[1] IN
         /\ isSending' = TRUE
         /\ isSendingRef' = TRUE
         /\ transmitAudio("auto", msg.id, Payload(msg.id, msg.text))
         /\ soloStarted' = IF SoloIdle(msg.id) THEN soloStarted \cup {msg.id}
                           ELSE soloStarted
         /\ UNCHANGED <<now, d, messages, relayQueue, seenIds, isReceiving,
                        micPermission, isStealthMode, timers, lastCommit, committedIds, rt, heard>>

\* s without its i-th element
RemoveAt(s, i) == SubSeq(s, 1, i - 1) \o SubSeq(s, i + 1, Len(s))

\* a completion callback without the setTimeout of lines 184, 599 and 616
OnEndedNoGuard(i) ==
    /\ i \in 1..Len(inflight)
    /\ isSending' = FALSE
    /\ relayQueue' = IF inflight[i].kind = "send" THEN relayQueue
                     ELSE MarkRelayed(relayQueue, inflight[i].id)
    /\ inflight' = RemoveAt(inflight, i)
    /\ UNCHANGED <<now, d, messages, seenIds, isSendingRef, isReceiving,
                   micPermission, isStealthMode, timers, lastCommit,
                   committedIds, relayStarted, soloStarted, rt, heard>>

(* osc.onended of the i-th oscillator in flight: the onComplete callback *)
OnEnded(i) ==
    /\ i \in 1..Len(inflight)
    /\ isSending' = FALSE
    /\ timers' = Append(timers, now + GUARD_MS)
    /\ relayQueue' = IF inflight[i].kind = "send" THEN relayQueue
                     ELSE MarkRelayed(relayQueue, inflight[i].id)
    /\ inflight' = RemoveAt(inflight, i)
    /\ UNCHANGED <<now, d, messages, seenIds, isSendingRef, isReceiving,
                   micPermission, isStealthMode, lastCommit, committedIds,
                   relayStarted, soloStarted, rt, heard>>

(* setTimeout(() => { isSendingRef.current = false; }, 500) fires *)
GuardTimeout ==
    /\ timers # <<>>
    /\ Head(timers) <= now
    /\ isSendingRef' = FALSE
    /\ timers' = Tail(timers)
    /\ UNCHANGED <<now, d, messages, relayQueue, seenIds, isSending, isReceiving,
                   micPermission, isStealthMode, inflight, lastCommit,
                   committedIds, relayStarted, soloStarted, rt, heard>>

\* clearRelayQueue if it also forgot the ids seen so far
clearRelayQueueForgetting ==
    /\ relayQueue' = <<>>
    /\ seenIds' = {}
    /\ UNCHANGED <<now, d, messages, isSending, isSendingRef, isReceiving,
                   micPermission, isStealthMode, inflight, timers,
                   lastCommit, committedIds, relayStarted, soloStarted, rt, heard>>

(* clearRelayQueue *)
clearRelayQueue ==
    /\ relayQueue' = <<>>
    /\ UNCHANGED <<now, d, messages, seenIds, isSending, isSendingRef, isReceiving,
                   micPermission, isStealthMode, inflight, timers,
                   lastCommit, committedIds, relayStarted, soloStarted, rt, heard>>

(* toggleStealthMode *)
toggleStealthMode ==
    /\ isStealthMode' = ~isStealthMode
    /\ UNCHANGED <<now, d, messages, relayQueue, seenIds, isSending, isSendingRef,
                   isReceiving, micPermission, inflight, timers, lastCommit,
                   committedIds, relayStarted, soloStarted, rt, heard>>

(* requestMicPermission, granted: the audio context and the analyser are
   created and startAudioMonitoring starts the update loop *)
requestMicPermission ==
    /\ ~micPermission
    /\ micPermission' = TRUE
    /\ UNCHANGED <<now, d, messages, relayQueue, seenIds, isSending, isSendingRef,
                   isReceiving, isStealthMode, inflight, timers,
                   lastCommit, committedIds, relayStarted, soloStarted, rt, heard>>

(* Time passes; a due timer callback runs before more time passes *)
Advance(dt) ==
    /\ now + dt <= MaxNow
    /\ \A i \in 1..Len(timers) : timers[i] > now
    /\ now' = now + dt
    /\ UNCHANGED <<d, messages, relayQueue, seenIds, isSending, isSendingRef,
                   isReceiving, micPermission, isStealthMode, inflight, timers,
          lastCommit, committedIds, relayStarted, soloStarted, rt, heard>>

-----------------------------------------------------------------------------
(* The device from its construction *)

SYS1 == <<83, 89, 83, 49>>

NoLoopback == [frame |-> <<>>, mode |-> "AUDIBLE", period |-> 0]

\* nothing fed yet: no earlier samples, and no run of samples under way
NothingHeard == [last |-> <<>>, runStart |-> 0, runQuiet |-> TRUE]

Init ==
    /\ now = 0
    /\ d = InitDecoder
    /\ messages = << [id |-> SYS1, text |-> <<>>, sender |-> "system"] >>
    /\ relayQueue = <<>>
    /\ seenIds = {SYS1}
    /\ isSending = FALSE
    /\ isSendingRef = FALSE
    /\ isReceiving = FALSE
    /\ micPermission = FALSE
    /\ isStealthMode = FALSE
    /\ inflight = <<>>
    /\ timers = <<>>
    /\ lastCommit = NoCommit
    /\ committedIds = {}
    /\ relayStarted = {}
    /\ soloStarted = {}
    /\ rt = NoLoopback
    /\ heard = NothingHeard

IsPrefix(p, s) == Len(p) <= Len(s) /\ SubSeq(s, 1, Len(p)) = p

\* the characters of the frames on the air
AirChars == {f[i] : f \in AirFrames, i \in 1..3}

\* what the analyser reports as the dominant bin while the neighbours send in
\* the audible band: the marker and the character tones
SampleFreqs ==
    {AUDIBLE_MARKER} \cup {FrequencyFor("AUDIBLE", c) : c \in AirChars}

\* its level: nothing, exactly the threshold, a clear tone
SampleLevels == {0, THRESHOLD, 200}

\* the decoder hears the frames on the air and, after a timeout, prefixes of
\* them: a character tone comes only where a frame on the air has it
FeedWithinBounds(freq, maxVal) ==
    /\ Len(messages) < MaxMessages
    /\ (d.state = "READ_CHAR" /\ maxVal > THRESHOLD /\ ~isSendingRef
        /\ MatchFrequency(d, freq, now).buffer # d.buffer)
       => \E f \in AirFrames : IsPrefix(MatchFrequency(d, freq, now).buffer, f)

Next ==
    \/ \E f \in SampleFreqs, a \in SampleLevels :
          FeedWithinBounds(f, a) /\ update(f, a)
    \/ \E t \in Texts :
          Len(inflight) < MaxInflight /\ Len(messages) < MaxMessages /\ sendMessage(t)
    \/ \E i \in 1..Len(relayQueue) :
          Len(inflight) < MaxInflight /\ relayMessage(relayQueue[i].id)
    \/ Len(inflight) < MaxInflight /\ RelayTick
    \/ \E i \in 1..Len(inflight) : OnEnded(i)
    \/ GuardTimeout
    \/ clearRelayQueue
    \/ requestMicPermission
    \/ \E dt \in ClockSteps : Advance(dt)

Spec == Init /\ [][Next]_vars

-----------------------------------------------------------------------------
(* Encoder-decoder loopback: a neighbour calls transmitAudio(rt.frame) in mode
   rt.mode at time 0 and this device, listening, runs update every rt.period
   milliseconds on what is on the air at that moment. *)

MaxFrameLen == 3

\* the characters of the frames sent through the loopback: ' ', 'I' and '|'
LoopbackChars == {Space, 73, SEPARATOR}

LoopbackFrames == UNION {[1..n -> LoopbackChars] : n \in 1..MaxFrameLen}

\* periods of the update loop that put at least CHAR_FRAMES runs in every tone
TickPeriods == {20, 40}

\* the tone of the schedule sounding at time t, as a set (empty in a gap)
TonesAt(schedule, t) ==
    {schedule[i].freq : i \in {j \in 1..Len(schedule) :
        schedule[j].start <= t /\ t < schedule[j].start + schedule[j].duration}}

LoopbackSchedule == ToneSchedule(rt.frame, rt.mode, HEAD_PAD)

\* the loopback runs until the silence after the last tone has timed out
LoopbackDone == now > StopTime(rt.frame, 0) + SILENCE_TIMEOUT

InitLoopback ==
    /\ now = 0
    /\ d = InitDecoder
    /\ messages = << [id |-> SYS1, text |-> <<>>, sender |-> "system"] >>
    /\ relayQueue = <<>>
    /\ seenIds = {SYS1}
    /\ isSending = FALSE
    /\ isSendingRef = FALSE
    /\ isReceiving = FALSE
    /\ micPermission = TRUE
    /\ isStealthMode = FALSE
    /\ inflight = <<>>
    /\ timers = <<>>
    /\ lastCommit = NoCommit
    /\ committedIds = {}
    /\ relayStarted = {}
    /\ soloStarted = {}
    /\ rt \in [frame : LoopbackFrames, mode : Modes, period : TickPeriods]
    /\ heard = NothingHeard

LoopbackTick ==
    /\ ~LoopbackDone
    /\ IF TonesAt(LoopbackSchedule, now) = {}
       THEN updateStep(0, 0)
       ELSE \E f \in TonesAt(LoopbackSchedule, now) : updateStep(f, 200)
    /\ now' = now + rt.period
    /\ UNCHANGED <<rt, heard>>

NextLoopback == LoopbackTick

SpecLoopback == InitLoopback /\ [][NextLoopback]_vars

\* the inbound messages
InboundOf(msgs) == SelectSeq(msgs, LAMBDA m : m.sender = "other")

Inbound == InboundOf(messages)

\* the frame an inbound message was committed from, given the frame sent
CommittedFrame(m, sent) ==
    IF Includes(sent, SEPARATOR) THEN Payload(m.id, m.text) ELSE m.text

(* C1: round trip.  For every printable string and each mode, the samples of the
   schedule transmitAudio builds for it, followed by silence, make the decoder
   commit exactly that string. *)
C1_RoundTrip ==
    LoopbackDone =>
        /\ Len(Inbound) = 1
        /\ CommittedFrame(Inbound[1], rt.frame) = rt.frame

\* what the code does: the committed frame is the trimmed string
C1_RoundTripTrimmed ==
    LoopbackDone =>
        IF Trim(rt.frame) = <<>> THEN Len(Inbound) = 0
        ELSE /\ Len(Inbound) = 1
             /\ CommittedFrame(Inbound[1], rt.frame) = Trim(rt.frame)

-----------------------------------------------------------------------------
(* Properties of the device under Spec *)

\* the inbound messages of msgs that carry id
InboundWith(msgs, id) ==
    {i \in 1..Len(msgs) : msgs[i].sender = "other" /\ msgs[i].id = id}

\* the entries of queue that carry id
EntriesWith(queue, id) == {i \in 1..Len(queue) : queue[i].id = id}

\* a step in which commitReceivedMessage commits a frame "id|text"
FramedCommitStep ==
    /\ d.buffer # <<>>
    /\ d'.buffer = <<>>
    /\ lastCommit'.via # "none"
    /\ lastCommit'.framed

(* C2, as the code has it: over any sequence of commits an id has at most one
   inbound Message and at most one RelayEntry; a committed frame whose id is
   not in seenIds appends exactly one of each, and a committed frame whose id
   was committed before, or is otherwise in seenIds (a message this device
   sent, the system message), appends nothing, whatever its text. *)
C2_AtMostOncePerId ==
    /\ [](\A i \in 1..Len(messages) : Cardinality(InboundWith(messages, messages[i].id)) <= 1)
    /\ [](\A i \in 1..Len(relayQueue) : Cardinality(EntriesWith(relayQueue, relayQueue[i].id)) = 1)
    /\ [](committedIds \subseteq seenIds)
    /\ [][FramedCommitStep =>
            IF lastCommit'.id \in seenIds
            THEN messages' = messages /\ relayQueue' = relayQueue
            ELSE /\ messages' = Append(messages,
                        [id |-> lastCommit'.id, text |-> lastCommit'.text,
                         sender |-> "other"])
                 /\ Len(relayQueue') = Len(relayQueue) + 1
                 /\ relayQueue'[Len(relayQueue')].id = lastCommit'.id
                 /\ relayQueue'[Len(relayQueue')].text = lastCommit'.text
                 /\ relayQueue'[Len(relayQueue')].status = "pending"]_vars

\* a frame is committed and dropped although an inbound message with its id
\* and another text was emitted before
C2_SecondOccurrenceDropped ==
    /\ lastCommit.outcome = "duplicate"
    /\ lastCommit.framed
    /\ \E i \in InboundWith(messages, lastCommit.id) :
          messages[i].text # lastCommit.text

(* C2, as stated: once a second frame with the same id is committed, there is
   exactly one inbound Message with that id. *)
C2_ExactlyOncePerId ==
    [][(FramedCommitStep /\ lastCommit'.id \in committedIds) =>
            Cardinality(InboundWith(messages', lastCommit'.id)) = 1]_vars

(* C3: at most one transmission is in flight: the number of tone schedules
   started by transmitAudio whose completion callback has not fired is 0 or 1. *)
C3_OneInFlight == Len(inflight) <= 1

(* C4: the busy flag is set in every state in which a transmission is in
   flight. *)
C4_BusyWhileInFlight == inflight # <<>> => isSendingRef

(* C5: half-duplex: no state has a transmission in flight and a reception in
   progress (decoder not IDLE, or the receiving flag set). *)
C5_HalfDuplex ==
    ~(inflight # <<>> /\ (isReceiving \/ d.state # "IDLE"))

(* C6: while a transmission is in flight, and until the guard timer of every
   completed one has run, a step changes nothing of the decoder but the debounce
   counter, which it sets to 0, and commits nothing. *)
C6_DecoderHeld ==
    [][(inflight # <<>> \/ timers # <<>>) =>
            /\ d' \in {d, [d EXCEPT !.consecutiveFrames = 0]}
            /\ InboundOf(messages') = InboundOf(messages)
            /\ Len(relayQueue') <= Len(relayQueue)]_vars

(* C7: relayMessage called while the busy flag is set or a reception is in
   progress starts no transmission and changes no state. *)
C7_ManualRelayWaits ==
    [][\A i \in 1..Len(relayQueue) :
            ((isSendingRef \/ isReceiving) /\ relayMessage(relayQueue[i].id))
                => UNCHANGED vars]_vars

\* a step in which a relay transmission (scheduler or manual) starts
RelayStartStep ==
    /\ Len(inflight') = Len(inflight) + 1
    /\ inflight'[Len(inflight')].kind # "send"

\* a step in which the scheduler starts a transmission
TickStartStep ==
    /\ Len(inflight') = Len(inflight) + 1
    /\ inflight'[Len(inflight')].kind = "auto"

(* C8: an entry never goes from relayed back to pending, and no relay
   transmission starts for an entry for which one was started before. *)
C8_RelayedOnce ==
    /\ [][\A i \in 1..Len(relayQueue), j \in 1..Len(relayQueue') :
            (relayQueue[i].status = "relayed" /\ relayQueue'[j].id = relayQueue[i].id)
                => relayQueue'[j].status = "relayed"]_vars
    /\ [][RelayStartStep =>
            inflight'[Len(inflight')].id \notin relayStarted]_vars

(* C9: once a tick has started the transmission of the only pending entry from
   an idle channel, no later tick starts a transmission of that entry. *)
C9_SecondTickNoAction ==
    [][TickStartStep => inflight'[Len(inflight')].id \notin soloStarted]_vars

-----------------------------------------------------------------------------
(* The device under the scheduling the platform guarantees: time passes, an
   oscillator that was started ends (the oldest first), a timer that is due
   fires, and the interval callback of the relay queue processor keeps running,
   so that it runs at a moment at which it can start a transmission if there are
   such moments again and again. *)

\* a relay node: it listens, relays and is operated through the queue panel,
\* and its user sends nothing of their own
NextLive ==
    \/ \E f \in SampleFreqs, a \in SampleLevels :
          FeedWithinBounds(f, a) /\ update(f, a)
    \/ \E i \in 1..Len(relayQueue) :
          Len(inflight) < MaxInflight /\ relayMessage(relayQueue[i].id)
    \/ Len(inflight) < MaxInflight /\ RelayTick
    \/ \E i \in 1..Len(inflight) : OnEnded(i)
    \/ GuardTimeout
    \/ clearRelayQueue
    \/ requestMicPermission
    \/ \E dt \in ClockSteps : Advance(dt)

SpecLive ==
    /\ Init
    /\ [][NextLive]_vars
    /\ WF_vars(\E dt \in ClockSteps : Advance(dt))
    /\ WF_vars(OnEnded(1))
    /\ WF_vars(GuardTimeout)
    /\ SF_vars(Len(inflight) < MaxInflight /\ RelayTick)

\* the ids a RelayEntry can carry: the id of a frame on the air or a generated one
EntryIds == GenIds \cup {ParseFrame(f, <<>>).id : f \in AirFrames}

\* the queue holds a pending entry with this id whose relayAfter elapses
\* within the time the model covers
PendingEntry(id) ==
    \E i \in 1..Len(relayQueue) :
        /\ relayQueue[i].id = id
        /\ relayQueue[i].status = "pending"
        /\ relayQueue[i].receivedAt + relayQueue[i].relayAfter <= MaxNow

\* no entry with this id is pending: it was relayed, or the queue was cleared
NotPending(id) ==
    \A i \in 1..Len(relayQueue) :
        relayQueue[i].id = id => relayQueue[i].status = "relayed"

\* what a tick looks at: neither the busy flag nor the receiving flag is set
ChannelIdle == ~isSendingRef /\ ~isReceiving

\* an entry the scheduler started from an idle channel once its wait had
\* elapsed is relayed
C10_RelayedByScheduler ==
    \E i \in 1..Len(relayQueue) :
        /\ relayQueue[i].status = "relayed"
        /\ relayQueue[i].id \in soloStarted
        /\ now >= relayQueue[i].receivedAt + relayQueue[i].relayAfter

(* C10: if the channel is idle again and again, every pending entry is
   eventually transmitted and marked relayed (or the queue is cleared); and a
   tick that finds the channel busy leaves the queue as it is. *)
C10_DelayedNotSkipped ==
    /\ \A id \in EntryIds :
          ([]<>ChannelIdle) => (PendingEntry(id) ~> NotPending(id))
    /\ [][((isSendingRef \/ isReceiving) /\ RelayTick) =>
            relayQueue' = relayQueue]_vars

-----------------------------------------------------------------------------
(* The decoder on its own: the microphone is granted, the device transmits
   nothing, and update runs every ListenPeriod milliseconds, each run on a
   sample the surroundings choose: quiet, the marker of either mode, a
   character tone of either mode, or a loud tone that is nobody's. *)

ListenPeriod == 500
MaxListenNow == 7000
MaxBuffer == 2

\* a loud tone above the audible character range and below the stealth marker
JunkFreq == FrequencyFor("AUDIBLE", MAX_CHAR + 10)

\* the level of a clear tone on the analyser's scale of 0..255
LoudLevel == 10 * THRESHOLD

Quiet == [freq |-> 0, level |-> 0]

ListenSamples ==
    {Quiet} \cup
    {[freq |-> f, level |-> LoudLevel] :
        f \in {AUDIBLE_MARKER, STEALTH_MARKER, JunkFreq,
               FrequencyFor("AUDIBLE", 73), FrequencyFor("AUDIBLE", 82),
               FrequencyFor("STEALTH", 73)}}

\* the last n elements of s
LastN(s, n) == IF Len(s) <= n THEN s ELSE SubSeq(s, Len(s) - n + 1, Len(s))

\* the history after the sample smp was fed at time t
Hear(h, smp, t) ==
    [last |-> LastN(Append(h.last, smp.freq), CHAR_FRAMES - 1),
     runStart |-> IF h.last # <<>> /\ h.runQuiet = (smp.level <= THRESHOLD)
                  THEN h.runStart ELSE t,
     runQuiet |-> smp.level <= THRESHOLD]

InitListen ==
    /\ now = 0
    /\ d = InitDecoder
    /\ messages = << [id |-> SYS1, text |-> <<>>, sender |-> "system"] >>
    /\ relayQueue = <<>>
    /\ seenIds = {SYS1}
    /\ isSending = FALSE
    /\ isSendingRef = FALSE
    /\ isReceiving = FALSE
    /\ micPermission = TRUE
    /\ isStealthMode = FALSE
    /\ inflight = <<>>
    /\ timers = <<>>
    /\ lastCommit = NoCommit
    /\ committedIds = {}
    /\ relayStarted = {}
    /\ soloStarted = {}
    /\ rt = NoLoopback
    /\ heard = NothingHeard

ListenTick(smp) ==
    /\ now + ListenPeriod <= MaxListenNow
    /\ Len(MatchFrequency(d, smp.freq, now).buffer) <= MaxBuffer
    /\ updateStep(smp.freq, smp.level)
    /\ now' = now + ListenPeriod
    /\ heard' = Hear(heard, smp, now)
    /\ UNCHANGED rt

NextListen == \E smp \in ListenSamples : ListenTick(smp)

SpecListen == InitListen /\ [][NextListen]_vars

\* the frequency of the sample fed in this step (0 when the sample is quiet)
FedNow == heard'.last[Len(heard'.last)]

\* this step commits the buffer (through either timeout)
CommitsNow == lastCommit'.via # "none"

OtherMode(mode) == IF mode = "AUDIBLE" THEN "STEALTH" ELSE "AUDIBLE"

\* the frequency is at the marker of the mode or passes for one of its characters
OfMode(mode, freq) ==
    \/ isFreq(freq, MarkerOf(mode))
    \/ /\ EstimatedChar(mode, freq) >= MIN_CHAR
       /\ EstimatedChar(mode, freq) <= MAX_CHAR
       /\ TightMatch(mode, freq, EstimatedChar(mode, freq))

(* C11: mode isolation.  With a character of the current message in the
   buffer, a sample at the marker or at a character tone of the other mode
   changes neither the active mode nor the FSM state nor the buffer, unless the
   step commits the message. *)
C11_ModeIsolation ==
    [][(/\ d.buffer # <<>>
        /\ FedNow # 0
        /\ OfMode(OtherMode(d.activeMode), FedNow)
        /\ ~CommitsNow)
            => /\ d'.activeMode = d.activeMode
               /\ d'.state = d.state
               /\ d'.buffer = d.buffer]_vars

\* the n samples fed just before this step all satisfy Confirms
Preceded(n, Confirms(_)) ==
    /\ Len(heard.last) >= n
    /\ \A i \in 1..n : Confirms(heard.last[Len(heard.last) - n + i])

(* C12: debounce stability.  The FSM enters READ_CHAR only on a sample that,
   with the samples fed just before it, makes MARKER_FRAMES consecutive
   samples at the marker of the mode entered; and a character is appended only
   on a sample that, with the samples just before it, makes CHAR_FRAMES
   consecutive samples of that character's tone. *)
C12_DebounceStable ==
    [][/\ (d.state # "READ_CHAR" /\ d'.state = "READ_CHAR") =>
            Preceded(MARKER_FRAMES - 1,
                     LAMBDA f : f # 0 /\ isFreq(f, MarkerOf(d'.activeMode)))
       /\ Len(d'.buffer) > Len(d.buffer) =>
            Preceded(CHAR_FRAMES - 1,
                     LAMBDA f : /\ f # 0
                                /\ EstimatedChar(d.activeMode, f)
                                       = d'.buffer[Len(d'.buffer)]
                                /\ TightMatch(d.activeMode, f,
                                              d'.buffer[Len(d'.buffer)]))]_vars

\* the sample fed in this step continues a run of quiet (loud) samples that
\* began at heard.runStart
QuietRun == heard.last # <<>> /\ heard.runQuiet /\ FedNow = 0
LoudRun == heard.last # <<>> /\ ~heard.runQuiet /\ FedNow # 0

\* a quiet run that has lasted longer than SILENCE_TIMEOUT and less than the
\* no-progress timeout commits the buffer through the silence branch
SilenceRunCommitsBySilence ==
    (/\ d.buffer # <<>>
     /\ QuietRun
     /\ now - heard.runStart > SILENCE_TIMEOUT
     /\ now - heard.runStart < NO_PROGRESS_TIMEOUT)
        => lastCommit'.via = "silence"

\* a loud run without a new character for longer than the no-progress timeout
\* commits through the stuck branch, and no commit in a loud run goes through
\* the silence branch
LoudRunCommitsByStuck ==
    /\ (/\ d.buffer # <<>>
        /\ LoudRun
        /\ now - heard.runStart > NO_PROGRESS_TIMEOUT
        /\ now - d.lastCharDecoded > NO_PROGRESS_TIMEOUT)
           => lastCommit'.via = "stuck"
    /\ (LoudRun /\ CommitsNow) => lastCommit'.via # "silence"

(* C13: timeout ordering.  A quiet run longer than the silence timeout and
   shorter than the no-progress timeout commits through the silence branch; a
   loud run that decodes nothing for longer than the no-progress timeout
   commits through the stuck branch and never through the silence branch. *)
C13_TimeoutOrdering ==
    [][SilenceRunCommitsBySilence /\ LoudRunCommitsByStuck]_vars

\* the second half of C13 on its own
C13_LoudRunOnly == [][LoudRunCommitsByStuck]_vars

-----------------------------------------------------------------------------
(* The decoder on its own with the animation frames that keep coming: update
   runs again as long as the model's time allows. *)

SpecListenLive == InitListen /\ [][NextListen]_vars /\ WF_vars(NextListen)

\* the decoder is as commitReceivedMessage and the idle timeout leave it
DecoderIdle == d.state = "IDLE" /\ d.buffer = <<>>

\* when the decoder last got somewhere: the last decoded character of the
\* message under way, or the confirmed marker while the buffer is empty
LastProgress == IF d.buffer # <<>> THEN d.lastCharDecoded ELSE d.lastValidRead

\* the wait that ends a decoder that gets nowhere
HealTimeout == IF d.buffer # <<>> THEN NO_PROGRESS_TIMEOUT ELSE IDLE_TIMEOUT

\* the model's time still holds a sample later than the timeout that runs
\* from the last progress
InHorizon ==
    LastProgress + HealTimeout + 2 * ListenPeriod <= MaxListenNow

(* C14: self-healing.  A decoder that is not idle with an empty buffer, fed
   samples without decoding a new character, is back in IDLE with an empty
   buffer at the first sample later than the timeout: it is never found
   unreset more than the timeout and one sampling period after its last
   progress, and under continued sampling it always gets back to IDLE (or
   decodes on, until the model's time ends). *)
C14_SelfHealing ==
    /\ [](~DecoderIdle => now - LastProgress <= HealTimeout + ListenPeriod)
    /\ (~DecoderIdle /\ InHorizon) ~> (DecoderIdle \/ ~InHorizon)

\* the decoder has just been brought back by a stuck commit, by a silence
\* commit, by an idle reset
C14_HealedByStuck ==
    DecoderIdle /\ lastCommit.via = "stuck" /\ now <= MaxListenNow

(* C15: full reset.  Right after every commit attempt and every idle timeout
   the state is IDLE, the buffer is empty, the last decoded character is null,
   the silence timer is not running and the debounce counter is 0. *)
C15_FullReset ==
    [][(CommitsNow \/ IdleTimeout(d, now)) =>
            /\ d'.state = "IDLE"
            /\ d'.buffer = <<>>
            /\ d'.lastDetectedChar = Null
            /\ d'.silenceTimer = Null
            /\ d'.consecutiveFrames = 0]_vars

-----------------------------------------------------------------------------
\* the ids of the messages of the chat
MessageIds(msgs) == {msgs[i].id : i \in 1..Len(msgs)}

(* C16: SeenIds only grows.  No step removes an id from seenIds, and the id
   of every message in the chat, sent (line 579) or received (line 538), is
   in seenIds once the message is there. *)
C16_SeenIdsGrow ==
    [][/\ seenIds \subseteq seenIds'
       /\ MessageIds(messages') \subseteq seenIds']_vars

\* a sent and a received message are in the chat, the relay queue has been
\* cleared, and both ids are still seen
C16_SeenAfterClear ==
    /\ relayQueue = <<>>
    /\ \E i, j \in 1..Len(messages) :
          /\ messages[i].sender = "me"
          /\ messages[j].sender = "other"
          /\ {messages[i].id, messages[j].id} \subseteq seenIds

-----------------------------------------------------------------------------
\* the buffer read as id SEP text: what is before its first separator and
\* what is after it
BufferId == SubSeq(d.buffer, 1, IndexOf(d.buffer, SEPARATOR) - 1)
BufferText == SubSeq(d.buffer, IndexOf(d.buffer, SEPARATOR) + 1, Len(d.buffer))

(* C17: frame parsing.  A commit of a buffer id SEP text, with id non-empty,
   free of separators and not seen before, appends an inbound message and a
   relay entry that carry exactly id and exactly text, whether or not text
   has separators of its own. *)
C17_FrameParsed ==
    [][(/\ CommitsNow
        /\ Includes(d.buffer, SEPARATOR)
        /\ BufferId # <<>>
        /\ BufferId \notin seenIds) =>
            /\ messages' = Append(messages,
                   [id |-> BufferId, text |-> BufferText, sender |-> "other"])
            /\ Len(relayQueue') = Len(relayQueue) + 1
            /\ relayQueue'[Len(relayQueue')].id = BufferId
            /\ relayQueue'[Len(relayQueue')].text = BufferText]_vars

\* what the code does: the frame is parsed from the trimmed buffer (line 520)
C17_TrimmedFrameParsed ==
    [][(/\ CommitsNow
        /\ Includes(Trim(d.buffer), SEPARATOR)
        /\ ParseFrame(Trim(d.buffer), <<>>).id \notin seenIds) =>
            /\ messages' = Append(messages,
                   [id |-> ParseFrame(Trim(d.buffer), <<>>).id,
                    text |-> ParseFrame(Trim(d.buffer), <<>>).text,
                    sender |-> "other"])
            /\ Len(relayQueue') = Len(relayQueue) + 1
            /\ relayQueue'[Len(relayQueue')].id = messages'[Len(messages')].id
            /\ relayQueue'[Len(relayQueue')].text = messages'[Len(messages')].text
            /\ (Trim(d.buffer) = d.buffer /\ BufferId # <<>>) =>
                  /\ messages'[Len(messages')].id = BufferId
                  /\ messages'[Len(messages')].text = BufferText]_vars

-----------------------------------------------------------------------------
(* The transmitter on its own: the user types texts that also hold characters
   outside the printable range ('é', DEL, a control character), sends them
   and switches the mode; nothing is heard. *)

MaxTypedLen == 2

\* 'I', the unit separator, DEL and 'é'
TypedChars == {73, MIN_CHAR - 1, MAX_CHAR + 1, 233}

TypedTexts ==
    UNION {[1..n -> TypedChars] : n \in 1..MaxTypedLen}

InitModulate ==
    /\ now = 0
    /\ d = InitDecoder
    /\ messages = << [id |-> SYS1, text |-> <<>>, sender |-> "system"] >>
    /\ relayQueue = <<>>
    /\ seenIds = {SYS1}
    /\ isSending = FALSE
    /\ isSendingRef = FALSE
    /\ isReceiving = FALSE
    /\ micPermission = TRUE
    /\ isStealthMode = FALSE
    /\ inflight = <<>>
    /\ timers = <<>>
    /\ lastCommit = NoCommit
    /\ committedIds = {}
    /\ relayStarted = {}
    /\ soloStarted = {}
    /\ rt = NoLoopback
    /\ heard = NothingHeard

NextModulate ==
    \/ \E t \in TypedTexts :
          Len(inflight) < MaxInflight /\ Len(messages) < MaxMessages /\ sendMessage(t)
    \/ toggleStealthMode
    \/ \E i \in 1..Len(inflight) : OnEnded(i)
    \/ GuardTimeout
    \/ \E dt \in ClockSteps : Advance(dt)

SpecModulate == InitModulate /\ [][NextModulate]_vars

\* the frequencies of the data tones of a schedule: every second event
DataTones(schedule) ==
    {schedule[2 * k].freq : k \in 1..(Len(schedule) \div 2)}

\* the data tones of the printable characters in a mode
PrintableTones(mode) == {FrequencyFor(mode, c) : c \in MIN_CHAR..MAX_CHAR}

(* C18: only printable characters are modulated.  Every data tone that
   transmitAudio has scheduled is the tone of a character code in 32..126. *)
C18_OnlyPrintableModulated ==
    \A i \in 1..Len(inflight) :
        DataTones(ToneSchedule(inflight[i].text, inflight[i].mode, HEAD_PAD))
            \subseteq PrintableTones(inflight[i].mode)

-----------------------------------------------------------------------------
(* The tone table through the decoder: a neighbour sends the character
   rt.frame[1] in mode rt.mode; the decoder is fed the marker and then the
   character's tone, each sample off the nominal frequency by up to half a
   step either way. *)

TonePeriod == 20
MaxToneNow == 120

\* the offsets of a sample from the nominal frequency, in Hz, up to and
\* including half a step
ToneOffsets(mode) == {o \in -StepOf(mode)..StepOf(mode) : 2 * Abs(o) <= StepOf(mode)}

ToneChar == rt.frame[1]

InitTones ==
    /\ now = 0
    /\ d = InitDecoder
    /\ messages = << [id |-> SYS1, text |-> <<>>, sender |-> "system"] >>
    /\ relayQueue = <<>>
    /\ seenIds = {SYS1}
    /\ isSending = FALSE
    /\ isSendingRef = FALSE
    /\ isReceiving = FALSE
    /\ micPermission = TRUE
    /\ isStealthMode = FALSE
    /\ inflight = <<>>
    /\ timers = <<>>
    /\ lastCommit = NoCommit
    /\ committedIds = {}
    /\ relayStarted = {}
    /\ soloStarted = {}
    /\ rt \in [frame : {<<c>> : c \in MIN_CHAR..MAX_CHAR}, mode : Modes,
               period : {TonePeriod}]
    /\ heard = NothingHeard

\* one run of update on a loud sample of frequency freq
FeedSample(freq) ==
    /\ now + rt.period <= MaxToneNow
    /\ d.buffer = <<>>
    /\ updateStep(freq, LoudLevel)
    /\ now' = now + rt.period
    /\ heard' = [heard EXCEPT !.last = <<freq>>]
    /\ UNCHANGED rt

FeedMarker ==
    /\ d.state # "READ_CHAR"
    /\ FeedSample(MarkerOf(rt.mode))

FeedTone(offset) ==
    /\ d.state = "READ_CHAR"
    /\ FeedSample(FrequencyFor(rt.mode, ToneChar) + offset)

NextTones ==
    \/ FeedMarker
    \/ \E o \in ToneOffsets(rt.mode) : FeedTone(o)

SpecTones == InitTones /\ [][NextTones]_vars

\* the sample of this step counts towards the character c: the debounce
\* counter goes up or, at the third sample, c is appended
CountsTowards(c) ==
    \/ d'.state = "READ_CHAR" /\ d'.consecutiveFrames = d.consecutiveFrames + 1
    \/ d'.buffer = Append(d.buffer, c)

(* C19: tone-table round trip.  In each mode and for every character code c
   in 32..126 the estimate for the nominal tone of c is c, and a sample less
   than half a step from that tone is estimated as c, passes the tight
   acceptance test and is counted by the decoder towards c. *)
C19_ToneRoundTrip ==
    /\ [](EstimatedChar(rt.mode, FrequencyFor(rt.mode, ToneChar)) = ToneChar)
    /\ [][(/\ d.state = "READ_CHAR"
           /\ 2 * Abs(FedNow - FrequencyFor(rt.mode, ToneChar)) < StepOf(rt.mode)) =>
               /\ EstimatedChar(rt.mode, FedNow) = ToneChar
               /\ TightMatch(rt.mode, FedNow, ToneChar)
               /\ CountsTowards(ToneChar)]_vars

\* the last character of the table, in the stealth band, decoded from samples
\* the last of which was off the nominal tone by one Hz less than half a step
C19_DecodedOffCentre ==
    /\ rt.mode = "STEALTH"
    /\ d.buffer = <<MAX_CHAR>>
    /\ heard.last = <<FrequencyFor("STEALTH", MAX_CHAR) + (STEALTH_STEP_FREQ \div 2) - 1>>

-----------------------------------------------------------------------------
(* The bands of the modes *)

\* PROTOCOL as tuned in components/NoFiChat.tsx
TUNED_RANGE == 100
TUNED_STEP_FREQ == 100
TUNED_AUDIBLE_MARKER == 1000
TUNED_AUDIBLE_BASE == 1400
TUNED_STEALTH_MARKER == 16000
TUNED_STEALTH_BASE == 16500
TUNED_STEALTH_STEP_FREQ == 40

TunedMarkerOf(mode) == IF mode = "STEALTH" THEN TUNED_STEALTH_MARKER ELSE TUNED_AUDIBLE_MARKER
TunedBaseOf(mode) == IF mode = "STEALTH" THEN TUNED_STEALTH_BASE ELSE TUNED_AUDIBLE_BASE
TunedStepOf(mode) == IF mode = "STEALTH" THEN TUNED_STEALTH_STEP_FREQ ELSE TUNED_STEP_FREQ

\* marker +/- range
MarkerWindow(mode) ==
    [lo |-> MarkerOf(mode) - RANGE, hi |-> MarkerOf(mode) + RANGE]

\* frequency_for(32) - step/2 .. frequency_for(126) + step/2
CharRange(mode) ==
    [lo |-> FrequencyFor(mode, MIN_CHAR) - StepOf(mode) \div 2,
     hi |-> FrequencyFor(mode, MAX_CHAR) + StepOf(mode) \div 2]

TunedMarkerWindow(mode) ==
    [lo |-> TunedMarkerOf(mode) - TUNED_RANGE, hi |-> TunedMarkerOf(mode) + TUNED_RANGE]

TunedCharRange(mode) ==
    [lo |-> TunedBaseOf(mode) + MIN_CHAR * TunedStepOf(mode) - TunedStepOf(mode) \div 2,
     hi |-> TunedBaseOf(mode) + MAX_CHAR * TunedStepOf(mode) + TunedStepOf(mode) \div 2]

Disjoint(a, b) == a.hi < b.lo \/ b.hi < a.lo

InBand(freq, band) == band.lo <= freq /\ freq <= band.hi

\* no two of the four bands of a table intersect
BandsDisjoint(Window(_), Range(_)) ==
    /\ \A m \in Modes : Disjoint(Window(m), Range(m))
    /\ \A m1, m2 \in Modes :
          m1 # m2 => /\ Disjoint(Window(m1), Window(m2))
                     /\ Disjoint(Window(m1), Range(m2))
                     /\ Disjoint(Range(m1), Range(m2))

\* the bands of the running configuration that hold freq
BandsHolding(freq) ==
    {<<"marker", m>> : m \in {n \in Modes : InBand(freq, MarkerWindow(n))}}
        \cup {<<"char", m>> : m \in {n \in Modes : InBand(freq, CharRange(n))}}

(* C20: the modes are disjoint in frequency.  With the constants of either
   revision the marker windows and the character ranges of the two modes are
   pairwise disjoint, and a mode's marker window does not meet its own
   character range; so every sample the decoder is fed lies in one band only,
   and a character tone is no mode's marker. *)
C20_ModesDisjoint ==
    /\ BandsDisjoint(MarkerWindow, CharRange)
    /\ BandsDisjoint(TunedMarkerWindow, TunedCharRange)
    /\ \A i \in 1..Len(heard.last) :
          /\ Cardinality(BandsHolding(heard.last[i])) = 1
          /\ InBand(heard.last[i], CharRange(rt.mode)) =>
                DetectedMode(heard.last[i]) = "NONE"

\* the decoder, reading a character in the stealth band, has been fed the
\* lowest frequency of that band's character range, the one nearest to a
\* marker, and is still reading
C20_EdgeToneHeard ==
    /\ rt.mode = "STEALTH"
    /\ d.state = "READ_CHAR"
    /\ heard.last = <<CharRange("STEALTH").lo>>

-----------------------------------------------------------------------------
(* One transmission on the audio clock: the user sends rt.frame at time 0 in
   mode rt.mode, the audio clock advances by rt.period, the oscillator ends at
   the time given to osc.stop (line 361) and its onended handler runs the
   completion callback; the guard timer of the callback fires when due. *)

\* texts the user sends: one or two of 'I' and '|'
ScheduleTexts == UNION {[1..n -> {73, SEPARATOR}] : n \in 1..MaxTypedLen}

InitSchedule ==
    /\ now = 0
    /\ d = InitDecoder
    /\ messages = << [id |-> SYS1, text |-> <<>>, sender |-> "system"] >>
    /\ relayQueue = <<>>
    /\ seenIds = {SYS1}
    /\ isSending = FALSE
    /\ isSendingRef = FALSE
    /\ isReceiving = FALSE
    /\ micPermission = TRUE
    /\ rt \in [frame : ScheduleTexts, mode : Modes, period : {TonePeriod}]
    /\ isStealthMode = (rt.mode = "STEALTH")
    /\ inflight = <<>>
    /\ timers = <<>>
    /\ lastCommit = NoCommit
    /\ committedIds = {}
    /\ relayStarted = {}
    /\ soloStarted = {}
    /\ heard = NothingHeard

\* the user sends the text, once
ScheduleSend ==
    /\ Len(messages) = 1
    /\ sendMessage(rt.frame)

\* the audio clock advances while the oscillator runs or a timer is pending
AudioTick ==
    /\ inflight # <<>> \/ timers # <<>>
    /\ \A i \in 1..Len(inflight) : now < StopTime(inflight[i].text, 0)
    /\ Advance(rt.period)

\* the oscillator reaches its stop time: onended
OscillatorEnded ==
    /\ inflight # <<>>
    /\ now >= StopTime(inflight[1].text, 0)
    /\ OnEnded(1)

NextSchedule ==
    \/ ScheduleSend
    \/ AudioTick
    \/ OscillatorEnded
    \/ GuardTimeout

SpecSchedule == InitSchedule /\ [][NextSchedule]_vars /\ WF_vars(NextSchedule)

\* the schedule of the oscillator in flight and the frame it was built for
FlightFrame == inflight[1].text
FlightSchedule == ToneSchedule(FlightFrame, inflight[1].mode, HEAD_PAD)

\* 2n tones, marker then data tone for each character of id SEP text in
\* order, starts one tone and one gap apart, the first after the head padding
ScheduleShape ==
    /\ FlightFrame = messages[2].id \o <<SEPARATOR>> \o rt.frame
    /\ Len(FlightSchedule) = 2 * Len(FlightFrame)
    /\ FlightSchedule[1].start = HEAD_PAD
    /\ \A k \in 1..Len(FlightFrame) :
          /\ FlightSchedule[2 * k - 1].freq = MarkerOf(rt.mode)
          /\ FlightSchedule[2 * k].freq =
                BaseOf(rt.mode) + FlightFrame[k] * StepOf(rt.mode)
    /\ \A j \in 1..(Len(FlightSchedule) - 1) :
          FlightSchedule[j + 1].start =
              FlightSchedule[j].start + TONE_DURATION + GAP_DURATION
    /\ StopTime(FlightFrame, 0) =
          HEAD_PAD + Len(FlightFrame) * 2 * (TONE_DURATION + GAP_DURATION) + TAIL_PAD
    /\ StopTime(FlightFrame, 0) =
          FlightSchedule[Len(FlightSchedule)].start
              + TONE_DURATION + GAP_DURATION + TAIL_PAD

\* the completion callback runs in this step
CallbackStep == Len(inflight') < Len(inflight)

(* C21: modulator schedule.  For a frame of n characters transmitAudio
   schedules 2n tones, a marker tone and a data tone per character of the
   whole frame in order, with starts tone_duration + gap_duration apart; the
   schedule lasts n * 2 * (tone_duration + gap_duration) plus the paddings;
   the completion callback runs once, after the last tone. *)
C21_ModulatorSchedule ==
    /\ [](inflight # <<>> => ScheduleShape)
    /\ [][CallbackStep =>
            /\ now >= FlightSchedule[Len(FlightSchedule)].start + TONE_DURATION
            /\ inflight' = <<>>
            /\ ~isSending'
            /\ Len(timers') = Len(timers) + 1]_vars
    /\ [][Len(inflight') > Len(inflight) => inflight = <<>> /\ Len(messages) = 1]_vars
    /\ (inflight # <<>>) ~> (inflight = <<>> /\ ~isSending)

\* the callback of the transmission of "|I" in stealth mode has run, at the
\* stop time of its five-character frame
C21_CallbackRan ==
    /\ rt.frame = <<SEPARATOR, 73>>
    /\ rt.mode = "STEALTH"
    /\ Len(messages) = 2
    /\ inflight = <<>>
    /\ ~isSending
    /\ timers # <<>>
    /\ now = StopTime(Payload(messages[2].id, rt.frame), 0)

-----------------------------------------------------------------------------
(* The relay queue processor on a device that has received two frames, "I|I"
   and then "R|I", whose entries drew different waits.  The interval callback
   runs between clock steps of its period; the user may send one message and
   press Relay, which keep the channel busy while entries become ready. *)

TICK_MS == 1000

\* waits drawn by the two entries, and when the second frame was received
QueueDelays == {RELAY_MIN_DELAY, RELAY_MIN_DELAY + 3 * TICK_MS,
                RELAY_MIN_DELAY + 5 * TICK_MS}
SecondReceivedAt == {0, 2 * TICK_MS}

ReceivedEntry(id, at, delay) ==
    [id |-> id, text |-> <<73>>, receivedAt |-> at, status |-> "pending",
     relayAfter |-> delay]

InitScheduler ==
    /\ d = InitDecoder
    /\ messages = << [id |-> SYS1, text |-> <<>>, sender |-> "system"],
                     [id |-> <<73>>, text |-> <<73>>, sender |-> "other"],
                     [id |-> <<82>>, text |-> <<73>>, sender |-> "other"] >>
    /\ \E at \in SecondReceivedAt, d1, d2 \in QueueDelays :
          /\ now = at
          /\ relayQueue = << ReceivedEntry(<<73>>, 0, d1),
                             ReceivedEntry(<<82>>, at, d2) >>
    /\ seenIds = {SYS1, <<73>>, <<82>>}
    /\ isSending = FALSE
    /\ isSendingRef = FALSE
    /\ isReceiving = FALSE
    /\ micPermission = TRUE
    /\ isStealthMode = FALSE
    /\ inflight = <<>>
    /\ timers = <<>>
    /\ lastCommit = NoCommit
    /\ committedIds = {<<73>>, <<82>>}
    /\ relayStarted = {}
    /\ soloStarted = {}
    /\ rt = NoLoopback
    /\ heard = NothingHeard

NextScheduler ==
    \/ Len(inflight) < MaxInflight /\ RelayTick
    \/ \E i \in 1..Len(relayQueue) :
          Len(inflight) < MaxInflight /\ relayMessage(relayQueue[i].id)
    \/ Len(inflight) < MaxInflight /\ Len(messages) = 3 /\ sendMessage(<<73>>)
    \/ \E i \in 1..Len(inflight) : OnEnded(i)
    \/ GuardTimeout
    \/ Advance(TICK_MS)

SpecScheduler == InitScheduler /\ [][NextScheduler]_vars

\* the entry is pending and its wait has elapsed
Ready(e, t) == e.status = "pending" /\ t - e.receivedAt >= e.relayAfter

\* the position in the queue of the entry whose transmission this step starts
StartedAt == FindEntry(relayQueue, inflight'[Len(inflight')].id)

(* C22: the scheduler never relays early.  Whenever a tick starts the
   transmission of an entry, the entry is in the queue, pending, and at least
   relayAfter has passed since its receivedAt. *)
C22_NotBeforeRelayAfter ==
    [][TickStartStep =>
            /\ StartedAt # 0
            /\ relayQueue[StartedAt].status = "pending"
            /\ now - relayQueue[StartedAt].receivedAt
                   >= relayQueue[StartedAt].relayAfter]_vars

\* the scheduler is relaying the second entry, whose wait is over, while the
\* first entry, received earlier, is still waiting
C22_SecondRelayedFirstWaiting ==
    /\ Len(inflight) = 1
    /\ inflight[1].kind = "auto"
    /\ inflight[1].id = relayQueue[2].id
    /\ now - relayQueue[2].receivedAt >= relayQueue[2].relayAfter
    /\ relayQueue[1].status = "pending"
    /\ now - relayQueue[1].receivedAt < relayQueue[1].relayAfter

(* C23: FIFO among ready entries.  The entry whose transmission a tick starts
   has no ready entry before it in the queue, whenever the entries became
   ready, and the tick changes no entry. *)
C23_EarliestQueuedFirst ==
    [][TickStartStep =>
            /\ StartedAt # 0
            /\ \A j \in 1..(StartedAt - 1) : ~Ready(relayQueue[j], now)
            /\ relayQueue' = relayQueue]_vars

\* the scheduler is relaying the first entry while the second, which has been
\* ready for longer, is still pending
C23_LaterReadyEarlier ==
    /\ \E i \in 1..Len(inflight) :
          inflight[i].kind = "auto" /\ inflight[i].id = relayQueue[1].id
    /\ relayQueue[1].status = "pending"
    /\ Ready(relayQueue[2], now)
    /\ relayQueue[2].receivedAt + relayQueue[2].relayAfter
          < relayQueue[1].receivedAt + relayQueue[1].relayAfter
    /\ relayQueue[2].id \notin relayStarted

\* the completion callback of a relay of the entry with this id runs in this step
RelayCallbackStep(id) ==
    \E k \in 1..Len(inflight) :
        /\ inflight[k].kind # "send"
        /\ inflight[k].id = id
        /\ inflight' = RemoveAt(inflight, k)

(* C24: an entry becomes relayed only in the completion callback of a
   transmission of that entry, and as long as a transmission of an entry is
   in flight the entry is pending. *)
C24_PendingWhileInFlight ==
    /\ [][\A i \in 1..Len(relayQueue) :
            (/\ i <= Len(relayQueue')
             /\ relayQueue[i].status = "pending"
             /\ relayQueue'[i].status = "relayed")
                => RelayCallbackStep(relayQueue[i].id)]_vars
    /\ [](\A k \in 1..Len(inflight), i \in 1..Len(relayQueue) :
            (inflight[k].kind # "send" /\ inflight[k].id = relayQueue[i].id)
                => relayQueue[i].status = "pending")

\* the first half of C24 on its own
C24_RelayedOnlyByCallback ==
    [][\A i \in 1..Len(relayQueue) :
            (/\ i <= Len(relayQueue')
             /\ relayQueue[i].status = "pending"
             /\ relayQueue'[i].status = "relayed")
                => RelayCallbackStep(relayQueue[i].id)]_vars

-----------------------------------------------------------------------------
\* the fields of an entry that are fixed when it is created
Fixed(e) == <<e.id, e.text, e.receivedAt, e.relayAfter>>

(* C25: relayAfter is drawn once.  Every entry's relayAfter lies in
   10000..20000, and every step leaves id, text, receivedAt and relayAfter of
   every entry that stays in the queue as they were. *)
C25_EntryFieldsFixed ==
    /\ [](\A i \in 1..Len(relayQueue) :
            /\ relayQueue[i].relayAfter >= RELAY_MIN_DELAY
            /\ relayQueue[i].relayAfter <= RELAY_MIN_DELAY + RELAY_DELAY_SPAN
            /\ relayQueue[i].status \in {"pending", "relayed"})
    /\ [][\A i \in 1..Len(relayQueue) :
            i <= Len(relayQueue') => Fixed(relayQueue'[i]) = Fixed(relayQueue[i])]_vars

\* the first entry has been relayed and a second frame has been committed
\* since the first; the first entry's wait is the one it drew
C25_RelayedThenCommitted ==
    /\ Len(relayQueue) = 2
    /\ relayQueue[1].status = "relayed"
    /\ relayQueue[1].relayAfter \in RelayDelays
    /\ relayQueue[2].receivedAt > relayQueue[1].receivedAt

(* C26: entries are never deleted automatically.  A step either keeps every
   entry at its place in the queue, relayed ones included, or is
   clearRelayQueue and empties the queue; a completion callback neither
   removes nor inserts an entry, also after a clear. *)
C26_OnlyClearRemoves ==
    /\ [][\/ /\ Len(relayQueue') >= Len(relayQueue)
             /\ \A i \in 1..Len(relayQueue) : relayQueue'[i].id = relayQueue[i].id
          \/ /\ relayQueue' = <<>>
             /\ clearRelayQueue]_vars
    /\ [][CallbackStep => Len(relayQueue') = Len(relayQueue)]_vars

\* the queue has been cleared while the relay of one of its entries is still
\* in flight
C26_ClearedInFlight ==
    /\ relayQueue = <<>>
    /\ \E k \in 1..Len(inflight) : inflight[k].kind # "send"

-----------------------------------------------------------------------------
\* the ids sendMessage has generated on this device
OwnIds(msgs) == {msgs[i].id : i \in {j \in 1..Len(msgs) : msgs[j].sender = "me"}}

(* C27: an id generated by sendMessage is not received.  Once sendMessage has
   generated an id, no step emits an inbound message or enqueues a relay
   entry with that id, and a commit of a frame that carries the id is
   discarded as a duplicate. *)
C27_OwnIdNotReceived ==
    [][\A id \in OwnIds(messages) :
          /\ InboundWith(messages', id) = InboundWith(messages, id)
          /\ EntriesWith(relayQueue', id) \subseteq EntriesWith(relayQueue, id)
          /\ (FramedCommitStep /\ lastCommit'.id = id)
                => lastCommit'.outcome = "duplicate"]_vars

\* a frame that carries an id of a message this device sent has just been
\* committed and discarded; the id was never received
C27_OwnEchoDiscarded ==
    /\ lastCommit.framed
    /\ lastCommit.outcome = "duplicate"
    /\ lastCommit.id \in OwnIds(messages)
    /\ InboundWith(messages, lastCommit.id) = {}
    /\ EntriesWith(relayQueue, lastCommit.id) = {}

-----------------------------------------------------------------------------
\* a step in which commitReceivedMessage commits a buffer that has no
\* separator and is not blank
UnframedCommitStep ==
    /\ d.buffer # <<>>
    /\ d'.buffer = <<>>
    /\ lastCommit'.via # "none"
    /\ ~Includes(d.buffer, SEPARATOR)
    /\ Trim(d.buffer) # <<>>

(* C28: malformed frame recovery.  A commit of a non-blank buffer without a
   separator appends an inbound message and a relay entry whose text is the
   trimmed buffer and whose id is new to seenIds; it is never dropped as a
   duplicate. *)
C28_UnframedAlwaysEmitted ==
    [][UnframedCommitStep =>
            /\ lastCommit'.outcome = "emitted"
            /\ Len(messages') = Len(messages) + 1
            /\ messages'[Len(messages')].sender = "other"
            /\ messages'[Len(messages')].text = Trim(d.buffer)
            /\ messages'[Len(messages')].id \notin seenIds
            /\ Len(relayQueue') = Len(relayQueue) + 1
            /\ relayQueue'[Len(relayQueue')].id = messages'[Len(messages')].id
            /\ relayQueue'[Len(relayQueue')].text = Trim(d.buffer)]_vars

\* what the code does: the buffer is emitted under the id generateId returns
\* unless that id is in seenIds, and then it is dropped as a duplicate
C28_UnframedEmittedUnlessSeen ==
    [][UnframedCommitStep =>
            IF lastCommit'.id \in seenIds
            THEN /\ lastCommit'.outcome = "duplicate"
                 /\ messages' = messages
                 /\ relayQueue' = relayQueue
            ELSE /\ lastCommit'.outcome = "emitted"
                 /\ messages' = Append(messages,
                        [id |-> lastCommit'.id, text |-> Trim(d.buffer),
                         sender |-> "other"])
                 /\ Len(relayQueue') = Len(relayQueue) + 1
                 /\ relayQueue'[Len(relayQueue')].id = lastCommit'.id
                 /\ relayQueue'[Len(relayQueue')].text = Trim(d.buffer)]_vars

-----------------------------------------------------------------------------
(* Two frames in a row: a neighbour transmits "I|I" at time 0 and, once the
   silence after it has timed out on this device, the frame rt.frame; this
   device runs update every rt.period milliseconds on what is on the air. *)

EchoFirst == <<73, SEPARATOR, 73>>

\* the second frame: the same id, the id in lower case, another id
EchoFrames == {<<73, SEPARATOR, 82>>, <<105, SEPARATOR, 82>>, <<82, SEPARATOR, 82>>}

\* when the neighbour calls transmitAudio for the second frame
EchoSecondAt == StopTime(EchoFirst, 0) + SILENCE_TIMEOUT

EchoSchedule ==
    ToneSchedule(EchoFirst, rt.mode, HEAD_PAD)
        \o ToneSchedule(rt.frame, rt.mode, EchoSecondAt + HEAD_PAD)

EchoDone == now > StopTime(rt.frame, EchoSecondAt) + SILENCE_TIMEOUT

InitEcho ==
    /\ now = 0
    /\ d = InitDecoder
    /\ messages = << [id |-> SYS1, text |-> <<>>, sender |-> "system"] >>
    /\ relayQueue = <<>>
    /\ seenIds = {SYS1}
    /\ isSending = FALSE
    /\ isSendingRef = FALSE
    /\ isReceiving = FALSE
    /\ micPermission = TRUE
    /\ isStealthMode = FALSE
    /\ inflight = <<>>
    /\ timers = <<>>
    /\ lastCommit = NoCommit
    /\ committedIds = {}
    /\ relayStarted = {}
    /\ soloStarted = {}
    /\ rt \in [frame : EchoFrames, mode : Modes, period : TickPeriods]
    /\ heard = NothingHeard

EchoTick ==
    /\ ~EchoDone
    /\ IF TonesAt(EchoSchedule, now) = {}
       THEN updateStep(0, 0)
       ELSE \E f \in TonesAt(EchoSchedule, now) : updateStep(f, 200)
    /\ now' = now + rt.period
    /\ UNCHANGED <<rt, heard>>

NextEcho == EchoTick

SpecEcho == InitEcho /\ [][NextEcho]_vars

\* String.prototype.toUpperCase on the letters a..z
UpperCase(c) == IF c >= 97 /\ c <= 122 THEN c - 32 ELSE c
FoldCase(id) == [i \in 1..Len(id) |-> UpperCase(id[i])]

(* C29: ids are case-insensitive for dedup.  A committed frame whose id is,
   letter case apart, the id of a frame committed before appends no message
   and no relay entry. *)
C29_IdsFoldCase ==
    [][(/\ FramedCommitStep
        /\ \E id \in committedIds : FoldCase(id) = FoldCase(lastCommit'.id)) =>
            /\ messages' = messages
            /\ relayQueue' = relayQueue]_vars

\* what the code does: ids are compared as they are
C29_IdsCompareExactly ==
    /\ [][(FramedCommitStep /\ lastCommit'.id \in committedIds) =>
            messages' = messages /\ relayQueue' = relayQueue]_vars
    /\ [](EchoDone => Len(Inbound) = IF rt.frame[1] = EchoFirst[1] THEN 1 ELSE 2)

-----------------------------------------------------------------------------
(* C30: a blank commit is discarded.  A commit of a buffer that is empty
   after trimming appends no message and no relay entry and adds no id to
   seenIds, and the decoder is reset: IDLE, empty buffer, no last character,
   no silence timer, not receiving. *)
C30_BlankCommitDiscarded ==
    [][(CommitsNow /\ Trim(d.buffer) = <<>>) =>
            /\ messages' = messages
            /\ relayQueue' = relayQueue
            /\ seenIds' = seenIds
            /\ d'.state = "IDLE"
            /\ d'.buffer = <<>>
            /\ d'.lastDetectedChar = Null
            /\ d'.silenceTimer = Null
            /\ ~isReceiving']_vars

\* the buffer of two spaces has just been committed and discarded
C30_BlankDiscarded ==
    /\ rt.frame = <<Space, Space>>
    /\ lastCommit.outcome = "empty"
    /\ d.state = "IDLE"
    /\ d.buffer = <<>>
    /\ Len(messages) = 1
    /\ relayQueue = <<>>

-----------------------------------------------------------------------------
(* C31: the idle timeout is silent.  When the state is not IDLE, the buffer is
   empty and the last valid read is more than IDLE_TIMEOUT old, the next
   sample resets the decoder to IDLE and commits nothing: the messages, the
   relay queue and seenIds are as they were.  With a non-empty buffer the
   decoder returns to IDLE only by a commit. *)
C31_IdleTimeoutSilent ==
    /\ [][(d.state # "IDLE" /\ d.buffer = <<>> /\
            now - d.lastValidRead > IDLE_TIMEOUT) =>
            /\ d'.state = "IDLE"
            /\ d'.buffer = <<>>
            /\ d'.lastDetectedChar = Null
            /\ d'.consecutiveFrames = 0
            /\ ~isReceiving'
            /\ ~CommitsNow
            /\ messages' = messages
            /\ relayQueue' = relayQueue
            /\ seenIds' = seenIds]_vars
    /\ [][(d.buffer # <<>> /\ d'.state = "IDLE") => CommitsNow]_vars

\* a marker was confirmed, no character followed, and the decoder is idle
\* again without a commit
C31_IdledWithoutCommit ==
    /\ d.state = "IDLE"
    /\ d.buffer = <<>>
    /\ d.lastValidRead > 0
    /\ d.lastCharDecoded = 0
    /\ now - d.lastValidRead > IDLE_TIMEOUT + ListenPeriod
    /\ lastCommit.via = "none"
    /\ Len(messages) = 1
    /\ relayQueue = <<>>
    /\ ~isReceiving

-----------------------------------------------------------------------------
(* C32: the noise gate.  A sample below the threshold that triggers none of
   the three timeouts zeroes the debounce counter, starts the silence timer
   if the buffer is non-empty and no timer is running, leaves a running timer
   as it is, and changes nothing else of the decoder. *)
C32_NoiseGate ==
    [][(heard'.runQuiet /\ ~StuckTimeout(d, now) /\ ~SilenceTimeout(d, now) /\
        ~IdleTimeout(d, now)) =>
            /\ d'.consecutiveFrames = 0
            /\ d'.silenceTimer = IF d.buffer # <<>> /\ d.silenceTimer = Null
                                 THEN now ELSE d.silenceTimer
            /\ d'.state = d.state
            /\ d'.buffer = d.buffer
            /\ d'.activeMode = d.activeMode
            /\ d'.lastDetectedChar = d.lastDetectedChar
            /\ d'.lastValidRead = d.lastValidRead
            /\ d'.lastCharDecoded = d.lastCharDecoded
            /\ ~CommitsNow]_vars

\* two quiet samples in a row with a character in the buffer: the timer the
\* first one started is still the one that runs
C32_TimerNotRestarted ==
    /\ d.buffer # <<>>
    /\ heard.runQuiet
    /\ heard.last = <<0, 0>>
    /\ now = heard.runStart + 2 * ListenPeriod
    /\ d.silenceTimer = heard.runStart
    /\ d.consecutiveFrames = 0

-----------------------------------------------------------------------------
(* C33: the gaps inside a frame do not end the message.  While a frame
   arrives with the marker/gap/data cadence of the transmitter, every
   confirmed marker that follows a character and every appended character
   sets the silence timer to the time of that sample, the decoder commits
   only once it holds every character of the frame, and the frame gives at
   most one message. *)
C33_GapsDoNotSplit ==
    /\ [][(d.state = "WAIT_MARKER" /\ d'.state = "READ_CHAR") =>
            d'.silenceTimer = now]_vars
    /\ [][Len(d'.buffer) > Len(d.buffer) => d'.silenceTimer = now]_vars
    /\ [][CommitsNow => d.buffer = rt.frame]_vars
    /\ [](Len(Inbound) <= 1)

\* the marker of the third character has just been confirmed, after two
\* characters and the gaps around them, and nothing was committed
C33_ThirdMarkerConfirmed ==
    /\ Len(rt.frame) = MaxFrameLen
    /\ Len(d.buffer) = 2
    /\ d.state = "READ_CHAR"
    /\ d.silenceTimer = now - rt.period
    /\ d.lastValidRead = now - rt.period
    /\ lastCommit.via = "none"
    /\ Len(messages) = 1

-----------------------------------------------------------------------------
(* C34: tight character acceptance.  In READ_CHAR a sample that is not the
   marker counts towards the debounce counter only if its estimated character
   code is in 32..126 and its frequency is less than half a step from the
   centre frequency of that character; every other sample sets the counter to
   0 and appends nothing. *)
C34_TightAcceptance ==
    [][(d.state = "READ_CHAR" /\ ~isFreq(FedNow, MarkerOf(d.activeMode))) =>
        LET c == EstimatedChar(d.activeMode, FedNow)
            centre == BaseOf(d.activeMode) + c * StepOf(d.activeMode)
            accepted == /\ c >= MIN_CHAR
                        /\ c <= MAX_CHAR
                        /\ 2 * Abs(FedNow - centre) < StepOf(d.activeMode)
        IN  IF accepted
            THEN CountsTowards(c)
            ELSE /\ d'.consecutiveFrames = 0
                 /\ d'.buffer = d.buffer
                 /\ d'.state = "READ_CHAR"]_vars

\* the tone of '~' heard half a step high, where the estimate is 127, after
\* three samples of the tone: the counter is back at 0 and nothing is appended
C34_HalfStepRejected ==
    /\ rt.mode = "AUDIBLE"
    /\ ToneChar = MAX_CHAR
    /\ heard.last = <<FrequencyFor("AUDIBLE", MAX_CHAR) + STEP_FREQ \div 2>>
    /\ now = (MARKER_FRAMES + CHAR_FRAMES) * TonePeriod
    /\ d.state = "READ_CHAR"
    /\ d.consecutiveFrames = 0
    /\ d.buffer = <<>>

-----------------------------------------------------------------------------
(* C35: a steady data tone yields one character.  A character is appended
   only in READ_CHAR, one at a time, and the append leaves READ_CHAR; the
   decoder comes back to READ_CHAR only on a marker sample.  So a tone held
   for any number of samples is appended once, and a character is appended
   again only after another marker. *)
C35_SteadyToneOnce ==
    /\ [][Len(d'.buffer) > Len(d.buffer) =>
            /\ d.state = "READ_CHAR"
            /\ d'.state = "WAIT_MARKER"
            /\ d'.buffer = Append(d.buffer, d'.lastDetectedChar)]_vars
    /\ [][(d.state # "READ_CHAR" /\ d'.state = "READ_CHAR") =>
            DetectedMode(FedNow) # "NONE"]_vars
    /\ [][(d.state # "READ_CHAR" /\ DetectedMode(FedNow) = "NONE") =>
            (d'.buffer = d.buffer \/ CommitsNow)]_vars

\* 'I' sent twice as two marker/data pairs is in the buffer twice, and the
\* tone of the second 'I' has been heard three times
C35_SameCharTwice ==
    /\ d.buffer = <<73, 73>>
    /\ d.state = "WAIT_MARKER"
    /\ d.lastDetectedChar = 73
    /\ heard.last = <<FrequencyFor("AUDIBLE", 73), FrequencyFor("AUDIBLE", 73)>>
    /\ lastCommit.via = "none"

-----------------------------------------------------------------------------
(* C36: a character is appended only on same-character confirmation.  When
   the buffer gains the character c in READ_CHAR, the sample of that step and
   the CHAR_FRAMES - 1 samples fed just before it all decode to c. *)
C36_SameCharConfirmation ==
    [][Len(d'.buffer) > Len(d.buffer) =>
        LET c == d'.buffer[Len(d'.buffer)]
            DecodesTo(f) == /\ f # 0
                            /\ EstimatedChar(d.activeMode, f) = c
                            /\ TightMatch(d.activeMode, f, c)
        IN  /\ DecodesTo(FedNow)
            /\ Len(heard.last) >= CHAR_FRAMES - 1
            /\ \A i \in 1..(CHAR_FRAMES - 1) :
                    DecodesTo(heard.last[Len(heard.last) - (CHAR_FRAMES - 1) + i])]_vars

-----------------------------------------------------------------------------
\* a step in which sendMessage passes its guard: an own message is appended
SendStep ==
    /\ Len(messages') = Len(messages) + 1
    /\ messages'[Len(messages')].sender = "me"

(* C37: rejected sends have no effect.  sendMessage appends a message, adds an
   id to seenIds, starts a transmission or sets the busy flag only when the
   text is not blank, the microphone is initialised and no transmission is in
   progress. *)
C37_RejectedSendNoEffect ==
    [][SendStep =>
        /\ Trim(messages'[Len(messages')].text) # <<>>
        /\ micPermission
        /\ inflight = <<>>]_vars

\* what the code does: the guard reads the isSending flag
C37_SendOnlyWhenFlagClear ==
    [][SendStep =>
        /\ Trim(messages'[Len(messages')].text) # <<>>
        /\ micPermission
        /\ ~isSending]_vars

-----------------------------------------------------------------------------
(* The device of SpecScheduler with a clock that keeps running, timers that
   fire when due and oscillators that end. *)
SpecBusy ==
    /\ InitScheduler
    /\ [][NextScheduler]_vars
    /\ WF_vars(Advance(TICK_MS))
    /\ WF_vars(GuardTimeout)
    /\ WF_vars(OnEnded(1))

(* C38: the busy flag is always eventually released.  After any sends,
   scheduler relays and manual relays: once every started transmission has
   had its completion callback, every guard timer still to fire is due within
   GUARD_MS, isSendingRef is false when the last of them has fired, and with
   the clock running isSendingRef does become false unless a transmission
   starts first; isSendingRef goes from false to true only in a step that
   starts a transmission. *)
C38_BusyFlagReleased ==
    /\ []((inflight = <<>> /\ timers = <<>>) => ~isSendingRef)
    /\ []((inflight = <<>> /\ isSendingRef) =>
            /\ timers # <<>>
            /\ timers[Len(timers)] <= now + GUARD_MS)
    /\ [][(~isSendingRef /\ isSendingRef') => Len(inflight') > Len(inflight)]_vars
    /\ ((inflight = <<>> /\ isSendingRef /\ now + TICK_MS <= MaxNow)
            ~> (~isSendingRef \/ inflight # <<>>))

\* a send and the relays of both entries are over, all guard timers have
\* fired and the flag is down
C38_AllReleased ==
    /\ inflight = <<>>
    /\ timers = <<>>
    /\ ~isSendingRef
    /\ Len(messages) = 4
    /\ \A i \in 1..Len(relayQueue) : relayQueue[i].status = "relayed"
    /\ relayStarted # {}

-----------------------------------------------------------------------------
(* C39: relay queue consistency.  In every reachable state the ids of the
   entries of the relay queue are pairwise distinct, each is in seenIds, and
   each entry has an inbound message with its id and text; the system message
   has no entry.  The queue grows only by one entry, in the step that appends
   the inbound message with that id and text, and never in a send. *)
C39_QueueConsistent ==
    /\ [](\A i \in 1..Len(relayQueue) :
            /\ \A j \in 1..Len(relayQueue) :
                    relayQueue[j].id = relayQueue[i].id => j = i
            /\ relayQueue[i].id \in seenIds
            /\ relayQueue[i].id # SYS1
            /\ \E k \in 1..Len(messages) :
                    /\ messages[k].sender = "other"
                    /\ messages[k].id = relayQueue[i].id
                    /\ messages[k].text = relayQueue[i].text)
    /\ [][Len(relayQueue') > Len(relayQueue) =>
            /\ Len(relayQueue') = Len(relayQueue) + 1
            /\ messages' = Append(messages,
                    [id |-> relayQueue'[Len(relayQueue')].id,
                     text |-> relayQueue'[Len(relayQueue')].text,
                     sender |-> "other"])]_vars
    /\ [][SendStep => relayQueue' = relayQueue]_vars

\* the queue holds the entry of a received message, and a message sent later
\* drew the same id: the entry is still the one of the inbound message
C39_EntryBesideOwnMessage ==
    /\ Len(relayQueue) = 1
    /\ \E k \in 1..Len(messages) :
          /\ messages[k].sender = "me"
          /\ messages[k].id = relayQueue[1].id
    /\ \E k \in 1..Len(messages) :
          /\ messages[k].sender = "other"
          /\ messages[k].id = relayQueue[1].id
          /\ messages[k].text = relayQueue[1].text

-----------------------------------------------------------------------------
(* C40: the shape of the decoder.  In every reachable state an IDLE decoder
   has an empty buffer, a decoder in WAIT_MARKER has a non-empty buffer, and a
   running silence timer goes with a non-empty buffer. *)
C40_DecoderShape ==
    /\ d.state \in {"IDLE", "WAIT_MARKER", "READ_CHAR"}
    /\ d.state = "IDLE" => d.buffer = <<>>
    /\ d.state = "WAIT_MARKER" => d.buffer # <<>>
    /\ d.silenceTimer # Null => d.buffer # <<>>

\* the silence after a character has run out and the commit has just reset
\* the decoder
C40_ResetAfterCommit ==
    /\ lastCommit.via = "silence"
    /\ d.state = "IDLE"
    /\ d.buffer = <<>>
    /\ d.silenceTimer = Null
    /\ Len(messages) = 2

====
